---------------------------- MODULE Spec2Model ----------------------------
(***************************************************************************)
(* Model of HSOIT_BHwaveforms/BH_waveforms.py: the module-level QNM        *)
(* template store (qnm_data, spins_by_mode), its loader, the spin          *)
(* interpolator, the perturbative frequency model and the ringdown         *)
(* waveform synthesiser.                                                   *)
(*                                                                         *)
(* Numbers.  Python floats are modelled by exact rationals <<n, d>> in     *)
(* lowest terms (d > 0); rounding error is not modelled.  Spins are        *)
(* integers counted in units of half the exact-match tolerance, so the     *)
(* tolerance 1e-6 of interpolate_entry is SpinTol = 2 units.  np.exp and   *)
(* np.cos are replaced by their second-order Taylor polynomials.           *)
(***************************************************************************)
EXTENDS Integers, Sequences, FiniteSets, TLC

VARIABLES qnm_data, spins_by_mode, op, res

vars == <<qnm_data, spins_by_mode, op, res>>

(* ------------------------------ bounds --------------------------------- *)
MaxRows == 2
MaxModes == 2

(* 1e-6 in spin units of 5e-7 *)
SpinTol == 2

(* ---------------------------- rationals -------------------------------- *)
Abs(x) == IF x < 0 THEN -x ELSE x

RECURSIVE Gcd(_, _)
Gcd(x, y) == IF y = 0 THEN x ELSE Gcd(y, x % y)

Rat(n, d) ==
    LET g == Gcd(Abs(n), Abs(d))
        s == IF d < 0 THEN -1 ELSE 1
    IN  <<(s * n) \div g, (s * d) \div g>>

RInt(n) == <<n, 1>>
RAdd(x, y) == Rat(x[1] * y[2] + y[1] * x[2], x[2] * y[2])
RSub(x, y) == Rat(x[1] * y[2] - y[1] * x[2], x[2] * y[2])
RMul(x, y) == Rat(x[1] * y[1], x[2] * y[2])

(* --------------------------- call outcomes ----------------------------- *)
Return(v) == [kind |-> "return", val |-> v]
Raise(exc, msg) == [kind |-> "raise", exc |-> exc, msg |-> msg]

(* ------------------------------ dicts ---------------------------------- *)
EmptyDict == [k \in {} |-> <<>>]
DictSet(d, key, v) == [k \in (DOMAIN d) \cup {key} |-> IF k = key THEN v ELSE d[k]]

(* ---------------------------- CSV cells -------------------------------- *)
Num(v) == <<"num", v>>
Blank == <<"blank", 0>>
Junk == <<"junk", 0>>

(* float(cell) / int(cell): the exception it raises, or "ok" *)
FloatErr(cell) ==
    CASE cell[1] = "num" -> "ok"
      [] OTHER -> "ValueError"

(* the alpha2/beta2 columns: '' is replaced by 0.0 before float() is tried *)
OptErr(cell) == IF cell # Blank THEN FloatErr(cell) ELSE "ok"

Float(cell) == RInt(cell[2])
OptFloat(cell) == IF cell # Blank THEN Float(cell) ELSE RInt(0)

(* the columns in the order the loader parses them *)
RowErrs(row) ==
    << FloatErr(row.a), FloatErr(row.l), FloatErr(row.n),
       FloatErr(row.omega0_R), FloatErr(row.omega0_I),
       FloatErr(row.alpha1), FloatErr(row.beta1),
       OptErr(row.alpha2), OptErr(row.beta2) >>

RowErr(row) ==
    LET errs == RowErrs(row)
        bad == {i \in 1..Len(errs) : errs[i] # "ok"}
    IN  IF bad = {} THEN "ok"
        ELSE errs[CHOOSE i \in bad : \A j \in bad : i <= j]

RowKey(row) == <<row.l[2], row.n[2]>>

RowEntry(row) ==
    [ a        |-> row.a[2],
      omega0_R |-> Float(row.omega0_R),
      omega0_I |-> Float(row.omega0_I),
      alpha1   |-> Float(row.alpha1),
      alpha2   |-> OptFloat(row.alpha2),
      beta1    |-> Float(row.beta1),
      beta2    |-> OptFloat(row.beta2) ]

(* ------------------------- load_QNM_templates -------------------------- *)
(* list.sort(key = a): stable, ascending *)
InsertByA(sorted, e) ==
    LET k == Cardinality({i \in 1..Len(sorted) : sorted[i].a <= e.a})
    IN  SubSeq(sorted, 1, k) \o <<e>> \o SubSeq(sorted, k + 1, Len(sorted))

RECURSIVE SortFrom(_, _, _)
SortFrom(entries, i, acc) ==
    IF i > Len(entries) THEN acc
    ELSE SortFrom(entries, i + 1, InsertByA(acc, entries[i]))

SortByA(entries) == SortFrom(entries, 1, <<>>)

SpinsOf(entries) == [i \in 1..Len(entries) |-> entries[i].a]

(* the final loop of the loader: sort every mode, record its spins *)
SortAll(q) ==
    [ q |-> [m \in DOMAIN q |-> SortByA(q[m])],
      s |-> [m \in DOMAIN q |-> SpinsOf(SortByA(q[m]))],
      out |-> Return("None") ]

(* the row loop, from the cleared dicts; a row that does not parse raises  *)
(* out of the loader and leaves what was appended so far                    *)
RECURSIVE LoadRows(_, _, _)
LoadRows(rows, i, q) ==
    IF i > Len(rows) THEN SortAll(q)
    ELSE IF RowErr(rows[i]) # "ok"
         THEN [q |-> q, s |-> EmptyDict, out |-> Raise(RowErr(rows[i]), <<"row", i>>)]
         ELSE LET key == RowKey(rows[i])
                  old == IF key \in DOMAIN q THEN q[key] ELSE <<>>
              IN  LoadRows(rows, i + 1, DictSet(q, key, Append(old, RowEntry(rows[i]))))

load_QNM_templates(rows) == LoadRows(rows, 1, EmptyDict)


(* --------------------------- interpolate_entry ------------------------- *)
(* Python list indexing, 0-based, a negative index counting from the end *)
PyAt(seq, i) == IF i >= 0 THEN seq[i + 1] ELSE seq[Len(seq) + i + 1]

(* for entry in entries: if abs(entry['a'] - a) < 1e-6: return entry *)
ExactMatches(entries, a) == {i \in 1..Len(entries) : Abs(entries[i].a - a) < SpinTol}

FirstMatch(entries, a) ==
    CHOOSE i \in ExactMatches(entries, a) : \A j \in ExactMatches(entries, a) : i <= j

(* while entries[idx_higher]['a'] < a: idx_higher += 1                     *)
(* 0-based index reached, or Len(entries) when the scan leaves the list    *)
RECURSIVE ScanHigher(_, _, _)
ScanHigher(entries, a, idx) ==
    IF idx >= Len(entries) THEN idx
    ELSE IF entries[idx + 1].a < a THEN ScanHigher(entries, a, idx + 1)
    ELSE idx

lerp(frac, x, y) == RAdd(x, RMul(frac, RSub(y, x)))

Interpolated(e_low, e_high, a) ==
    LET frac == Rat(a - e_low.a, e_high.a - e_low.a)
    IN  [ a        |-> a,
          omega0_R |-> lerp(frac, e_low.omega0_R, e_high.omega0_R),
          omega0_I |-> lerp(frac, e_low.omega0_I, e_high.omega0_I),
          alpha1   |-> lerp(frac, e_low.alpha1, e_high.alpha1),
          alpha2   |-> lerp(frac, e_low.alpha2, e_high.alpha2),
          beta1    |-> lerp(frac, e_low.beta1, e_high.beta1),
          beta2    |-> lerp(frac, e_low.beta2, e_high.beta2) ]

interpolate_entry(q, mode_key, a) ==
    IF mode_key \notin DOMAIN q
    THEN Raise("ValueError", <<"ModeNotFound", mode_key>>)
    ELSE LET entries == q[mode_key] IN
         IF ExactMatches(entries, a) # {}
         THEN Return(entries[FirstMatch(entries, a)])
         ELSE LET min_a == entries[1].a
                  max_a == entries[Len(entries)].a
              IN  IF a < min_a \/ a > max_a
                  THEN Raise("ValueError", <<"OutOfRange", a, min_a, max_a, mode_key>>)
                  ELSE LET idx_higher == ScanHigher(entries, a, 0)
                           idx_lower == idx_higher - 1
                       IN  IF idx_higher >= Len(entries)
                           THEN Raise("IndexError", <<"scan", idx_higher>>)
                           ELSE LET e_low == PyAt(entries, idx_lower)
                                    e_high == PyAt(entries, idx_higher)
                                IN  IF e_high.a = e_low.a
                                    THEN Raise("ZeroDivisionError", <<"frac", a>>)
                                    ELSE Return(Interpolated(e_low, e_high, a))

(* ------------------------------ get_frequency -------------------------- *)
Complex(re, im) == [re |-> re, im |-> im]

(* get_frequency with the second-order terms taken at eps, not eps^2 *)
get_frequency_FirstOrderOnly(q, a, l, n, eps) ==
    LET mode_key == <<l, n>> IN
    IF mode_key \notin DOMAIN q
    THEN Raise("RuntimeError", <<"NotLoadedOrNoMode">>)
    ELSE LET r == interpolate_entry(q, mode_key, a) IN
         IF r.kind = "raise" THEN r
         ELSE LET entry == r.val
                  delta_omega_R == RAdd(RMul(entry.alpha1, RInt(eps)),
                                        RMul(entry.alpha2, RInt(eps)))
                  delta_omega_I == RAdd(RMul(entry.beta1, RInt(eps)),
                                        RMul(entry.beta2, RInt(eps)))
              IN  Return(Complex(RAdd(entry.omega0_R, delta_omega_R),
                                 RAdd(entry.omega0_I, delta_omega_I)))

get_frequency(q, a, l, n, eps) ==
    LET mode_key == <<l, n>> IN
    IF mode_key \notin DOMAIN q
    THEN Raise("RuntimeError", <<"NotLoadedOrNoMode">>)
    ELSE LET r == interpolate_entry(q, mode_key, a) IN
         IF r.kind = "raise" THEN r
         ELSE LET entry == r.val
                  delta_omega_R == RAdd(RMul(entry.alpha1, RInt(eps)),
                                        RMul(entry.alpha2, RInt(eps * eps)))
                  delta_omega_I == RAdd(RMul(entry.beta1, RInt(eps)),
                                        RMul(entry.beta2, RInt(eps * eps)))
              IN  Return(Complex(RAdd(entry.omega0_R, delta_omega_R),
                                 RAdd(entry.omega0_I, delta_omega_I)))

(* ---------------------------- generate_waveform ------------------------ *)
(* np.arange(0, duration, dt) for dt > 0: ceil(duration / dt) samples k*dt *)
ArangeLen(duration, dt) ==
    IF duration <= 0 THEN 0 ELSE (duration + dt - 1) \div dt

Arange(duration, dt) == [k \in 1..ArangeLen(duration, dt) |-> (k - 1) * dt]

Half == <<1, 2>>
ExpApprox(x) == RAdd(RAdd(RInt(1), x), RMul(Half, RMul(x, x)))
CosApprox(x) == RSub(RInt(1), RMul(Half, RMul(x, x)))

(* A_ln * np.exp(omega_I * t) * np.cos(omega_R * t), A_ln = 1.0 *)
ModeStrain(omega, t) ==
    [k \in 1..Len(t) |->
        RMul(RMul(RInt(1), ExpApprox(RMul(omega.im, RInt(t[k])))),
             CosApprox(RMul(omega.re, RInt(t[k]))))]

VecAdd(h, g) == [k \in 1..Len(h) |-> RAdd(h[k], g[k])]

(* the loop with a failing mode skipped instead of ending the call *)
RECURSIVE WaveLoop_SkipFailed(_, _, _, _, _, _, _)
WaveLoop_SkipFailed(q, spin, eps, modes, t, i, h_total) ==
    IF i > Len(modes) THEN Return([t |-> t, h |-> h_total])
    ELSE LET omega == get_frequency(q, spin, modes[i][1], modes[i][2], eps) IN
         IF omega.kind = "raise"
         THEN WaveLoop_SkipFailed(q, spin, eps, modes, t, i + 1, h_total)
         ELSE WaveLoop_SkipFailed(q, spin, eps, modes, t, i + 1,
                                  VecAdd(h_total, ModeStrain(omega.val, t)))

(* the loop with h_total = h_mode in place of h_total += h_mode *)
RECURSIVE WaveLoop_Overwrite(_, _, _, _, _, _, _)
WaveLoop_Overwrite(q, spin, eps, modes, t, i, h_total) ==
    IF i > Len(modes) THEN Return([t |-> t, h |-> h_total])
    ELSE LET omega == get_frequency(q, spin, modes[i][1], modes[i][2], eps) IN
         IF omega.kind = "raise" THEN omega
         ELSE WaveLoop_Overwrite(q, spin, eps, modes, t, i + 1, ModeStrain(omega.val, t))

(* the loop over modes from position i with the strain accumulated so far; *)
(* an exception of get_frequency leaves the function                        *)
RECURSIVE WaveLoop(_, _, _, _, _, _, _)
WaveLoop(q, spin, eps, modes, t, i, h_total) ==
    IF i > Len(modes) THEN Return([t |-> t, h |-> h_total])
    ELSE LET omega == get_frequency(q, spin, modes[i][1], modes[i][2], eps) IN
         IF omega.kind = "raise" THEN omega
         ELSE WaveLoop(q, spin, eps, modes, t, i + 1,
                       VecAdd(h_total, ModeStrain(omega.val, t)))

generate_waveform(q, mass, spin, eps, modes, duration, dt) ==
    LET t == Arange(duration, dt)
        zeros == [k \in 1..Len(t) |-> RInt(0)]
    IN  WaveLoop(q, spin, eps, modes, t, 1, zeros)

(* ------------------------------- inputs -------------------------------- *)
ModeA == <<2, 0>>
ModeB == <<2, 1>>
ModeKeys == {ModeA, ModeB}

Row(a, key, oR, oI, a1, b1, a2, b2) ==
    [ a |-> a, l |-> Num(key[1]), n |-> Num(key[2]),
      omega0_R |-> Num(oR), omega0_I |-> Num(oI),
      alpha1 |-> Num(a1), beta1 |-> Num(b1), alpha2 |-> a2, beta2 |-> b2 ]

(* the rows a table is made of: mode (2,0) at spins 0, 1 (closer to 0 than *)
(* the tolerance) and 4, mode (2,1) at spin 0 with blank second-order       *)
(* columns, and a row whose spin column is not a number                     *)
RowA0 == Row(Num(0), ModeA, 4, -2, 2, -1, Num(1), Num(-1))
RowA1 == Row(Num(1), ModeA, 5, -3, 1, -2, Blank, Num(2))
RowA4 == Row(Num(4), ModeA, 6, -1, 3, 0, Num(2), Num(3))
RowB0 == Row(Num(0), ModeB, 3, -4, 1, -1, Blank, Blank)
RowBad == Row(Junk, ModeA, 4, -2, 2, -1, Num(1), Num(-1))

RowList == <<RowA0, RowA1, RowA4, RowB0, RowBad>>
WellFormed == {i \in 1..Len(RowList) : RowErr(RowList[i]) = "ok"}
Malformed == {i \in 1..Len(RowList) : RowErr(RowList[i]) # "ok"}

(* A table is the sequence of its rows, each named by its place in RowList: *)
(* up to MaxRows well-formed rows, then possibly a malformed one.  The rows *)
(* after the first malformed row are never read, so tables stop there.      *)
CleanTables == UNION {[1..k -> WellFormed] : k \in 0..MaxRows}
Tables == CleanTables \cup {Append(t, b) : t \in CleanTables, b \in Malformed}

TableRows(table) == [i \in 1..Len(table) |-> RowList[table[i]]]

QuerySpins == {-2, -1, 0, 1, 2, 4, 5}
EpsValues == {0, 2}
ModeLists == UNION {[1..k -> ModeKeys] : k \in 0..MaxModes}
WaveSpins == {0, 2}
WaveEps == {1}
Durations == {0, 3}
Steps == {2}

(* ------------------------------- actions ------------------------------- *)
Init ==
    /\ qnm_data = EmptyDict
    /\ spins_by_mode = EmptyDict
    /\ op = [name |-> "import"]
    /\ res = Return("None")

(* load_QNM_templates tabulated over the tables, once *)
LoadOutcome == [table \in Tables |-> load_QNM_templates(TableRows(table))] @@ <<>>

Load ==
    \E rows \in Tables :
        LET r == LoadOutcome[rows] IN
        /\ qnm_data' = r.q
        /\ spins_by_mode' = r.s
        /\ op' = [name |-> "load_QNM_templates", rows |-> rows]
        /\ res' = r.out

(* interpolate_entry keeping each interpolated entry in the mode's list *)
InterpolateEntry_Caching ==
    \E mode_key \in ModeKeys, a \in QuerySpins :
        LET r == interpolate_entry(qnm_data, mode_key, a) IN
        /\ op' = [name |-> "interpolate_entry", mode_key |-> mode_key, a |-> a]
        /\ res' = r
        /\ qnm_data' =
              IF r.kind = "return" /\ ExactMatches(qnm_data[mode_key], a) = {}
              THEN DictSet(qnm_data, mode_key, Append(qnm_data[mode_key], r.val))
              ELSE qnm_data
        /\ UNCHANGED spins_by_mode

InterpolateEntry ==
    \E mode_key \in ModeKeys, a \in QuerySpins :
        /\ op' = [name |-> "interpolate_entry", mode_key |-> mode_key, a |-> a]
        /\ res' = interpolate_entry(qnm_data, mode_key, a)
        /\ UNCHANGED <<qnm_data, spins_by_mode>>

GetFrequency ==
    \E mode_key \in ModeKeys, a \in QuerySpins, eps \in EpsValues :
        /\ op' = [name |-> "get_frequency", mode_key |-> mode_key, a |-> a, eps |-> eps]
        /\ res' = get_frequency(qnm_data, a, mode_key[1], mode_key[2], eps)
        /\ UNCHANGED <<qnm_data, spins_by_mode>>

GenerateWaveform ==
    \E modes \in ModeLists, spin \in WaveSpins, eps \in WaveEps,
       duration \in Durations, dt \in Steps :
        /\ op' = [name |-> "generate_waveform", modes |-> modes, spin |-> spin,
                  eps |-> eps, duration |-> duration, dt |-> dt]
        /\ res' = generate_waveform(qnm_data, 1, spin, eps, modes, duration, dt)
        /\ UNCHANGED <<qnm_data, spins_by_mode>>

Next == Load \/ InterpolateEntry \/ GetFrequency \/ GenerateWaveform

Spec == Init /\ [][Next]_vars

(* --------------------------- stated properties ------------------------- *)
Spins(m) == {qnm_data[m][i].a : i \in 1..Len(qnm_data[m])}
MinSpin(m) == CHOOSE x \in Spins(m) : \A y \in Spins(m) : x <= y
MaxSpin(m) == CHOOSE x \in Spins(m) : \A y \in Spins(m) : y <= x
FieldNames == {"omega0_R", "omega0_I", "alpha1", "alpha2", "beta1", "beta2"}
Interpolating == op.name = "interpolate_entry" /\ op.mode_key \in DOMAIN qnm_data
SortedStore ==
    \A m \in DOMAIN qnm_data :
        \A i \in 1..(Len(qnm_data[m]) - 1) : qnm_data[m][i].a <= qnm_data[m][i + 1].a

(* C1: for a mode of the store and a query spin strictly below the mode's  *)
(* smallest stored spin or strictly above its largest, by any amount,      *)
(* interpolate_entry fails with the out-of-range error and returns no      *)
(* entry.                                                                   *)
C1_OutsideAlwaysFails ==
    (Interpolating /\ (op.a < MinSpin(op.mode_key) \/ op.a > MaxSpin(op.mode_key)))
        => (res.kind = "raise" /\ res.msg[1] = "OutOfRange")

(* C2: for every entry e stored under a mode, interpolate_entry(mode,      *)
(* e.spin) returns exactly e.                                               *)
C2_StoredSpinReturnsOwnEntry ==
    Interpolating =>
        \A i \in 1..Len(qnm_data[op.mode_key]) :
            qnm_data[op.mode_key][i].a = op.a => res = Return(qnm_data[op.mode_key][i])

(* C3: for a query spin inside [min, max] of a mode that matches no stored *)
(* spin, the result is the linear interpolation, field by field, between   *)
(* two consecutive entries lower, upper with lower.spin <= spin <=         *)
(* upper.spin and lower.spin # upper.spin, and carries the query spin.     *)
C3_InRangeIsBracketed ==
    ( /\ Interpolating
      /\ MinSpin(op.mode_key) <= op.a /\ op.a <= MaxSpin(op.mode_key)
      /\ ExactMatches(qnm_data[op.mode_key], op.a) = {} )
    => /\ res.kind = "return"
       /\ res.val.a = op.a
       /\ \E i \in 1..(Len(qnm_data[op.mode_key]) - 1) :
            LET lower == qnm_data[op.mode_key][i]
                upper == qnm_data[op.mode_key][i + 1]
            IN  /\ lower.a <= op.a /\ op.a <= upper.a /\ lower.a # upper.a
                /\ \A f \in FieldNames :
                     RMul(RSub(res.val[f], lower[f]), RInt(upper.a - lower.a))
                        = RMul(RInt(op.a - lower.a), RSub(upper[f], lower[f]))

(* c0 + c1*x + c2*x^2 *)
Quadratic(c0, c1, c2, x) == RAdd(c0, RMul(RInt(x), RAdd(c1, RMul(RInt(x), c2))))

(* C4: whenever interpolate_entry returns an entry e for (mode, spin),     *)
(* get_frequency returns the complex number with real part omega0_R +      *)
(* alpha1*eps + alpha2*eps^2 and imaginary part omega0_I + beta1*eps +     *)
(* beta2*eps^2 of e; for eps = 0 that is (omega0_R, omega0_I) itself.      *)
C4_FrequencyFormula ==
    (op.name = "get_frequency"
        /\ interpolate_entry(qnm_data, op.mode_key, op.a).kind = "return")
    => LET e == interpolate_entry(qnm_data, op.mode_key, op.a).val IN
       /\ res.kind = "return"
       /\ res.val.re = Quadratic(e.omega0_R, e.alpha1, e.alpha2, op.eps)
       /\ res.val.im = Quadratic(e.omega0_I, e.beta1, e.beta2, op.eps)
       /\ op.eps = 0 => (res.val.re = e.omega0_R /\ res.val.im = e.omega0_I)

(* a frequency computed from an interpolated entry with non-zero eps and   *)
(* non-zero second-order coefficients                                       *)
C4_Witness ==
    /\ op.name = "get_frequency" /\ op.eps # 0 /\ res.kind = "return"
    /\ op.mode_key \in DOMAIN qnm_data
    /\ ExactMatches(qnm_data[op.mode_key], op.a) = {}
    /\ interpolate_entry(qnm_data, op.mode_key, op.a).val.alpha2 # RInt(0)
    /\ interpolate_entry(qnm_data, op.mode_key, op.a).val.beta2 # RInt(0)

(* C5: the failure of get_frequency is the failure interpolate_entry       *)
(* produces for the same (mode, spin), unmodified; in particular a mode    *)
(* absent from the store gives the interpolator's unknown-mode error.      *)
C5_ErrorsSurfaceUnmodified ==
    (op.name = "get_frequency" /\ res.kind = "raise")
    => LET r == interpolate_entry(qnm_data, op.mode_key, op.a) IN
       /\ r.kind = "raise"
       /\ res.exc = r.exc
       /\ res.msg[1] = r.msg[1]

FrequencyOf(i) == get_frequency(qnm_data, op.spin, op.modes[i][1], op.modes[i][2], op.eps)
FailingModes == {i \in 1..Len(op.modes) : FrequencyOf(i).kind = "raise"}

(* C6: generate_waveform returns a (time, strain) result only when every   *)
(* requested mode succeeds; when the lookup of a mode fails, at whatever   *)
(* position of the list, the call ends in that failure (the first one met) *)
(* and returns nothing.                                                     *)
C6_AllOrNothing ==
    op.name = "generate_waveform" =>
        /\ FailingModes = {} => res.kind = "return"
        /\ FailingModes # {} =>
             /\ res.kind = "raise"
             /\ res = FrequencyOf(CHOOSE i \in FailingModes : \A j \in FailingModes : i <= j)

(* a request on a non-empty grid whose first mode succeeds and whose       *)
(* second mode fails                                                        *)
C6_Witness ==
    /\ op.name = "generate_waveform" /\ Len(op.modes) = 2
    /\ ArangeLen(op.duration, op.dt) > 0
    /\ FrequencyOf(1).kind = "return" /\ FrequencyOf(2).kind = "raise"
    /\ res.kind = "raise"

Single(i) ==
    generate_waveform(qnm_data, 1, op.spin, op.eps, <<op.modes[i]>>, op.duration, op.dt)

(* C7: the strain of a two-mode request [A, B] is, sample by sample, the   *)
(* sum of the strains of the requests [A] and [B] with the same spin, eps, *)
(* duration and dt, on the same time grid; and at t = 0 the strain is the  *)
(* number of requested modes.                                               *)
C7_Superposition ==
    (op.name = "generate_waveform" /\ res.kind = "return") =>
        /\ Len(op.modes) = 2 =>
             /\ Single(1).kind = "return" /\ Single(2).kind = "return"
             /\ res.val.t = Single(1).val.t /\ res.val.t = Single(2).val.t
             /\ \A k \in 1..Len(res.val.t) :
                  res.val.h[k] = RAdd(Single(1).val.h[k], Single(2).val.h[k])
        /\ Len(res.val.t) > 0 =>
             (res.val.t[1] = 0 /\ res.val.h[1] = RInt(Len(op.modes)))

(* a two-mode request with distinct modes, both available, on a grid with  *)
(* a sample after t = 0 where both modes contribute                         *)
C7_Witness ==
    /\ op.name = "generate_waveform" /\ res.kind = "return"
    /\ Len(op.modes) = 2 /\ op.modes[1] # op.modes[2]
    /\ Len(res.val.t) > 1
    /\ Single(1).val.h[2] # RInt(0) /\ Single(2).val.h[2] # RInt(0)
    /\ Single(1).val.h[2] # Single(2).val.h[2]

(* C8: after a load that completes, every mode's entries are in strictly   *)
(* ascending spin order (no spin twice) and every row's mode is present.   *)
C8_StrictlyAscendingAfterLoad ==
    (op.name = "load_QNM_templates" /\ res.kind = "return") =>
        /\ \A m \in DOMAIN qnm_data :
             \A i \in 1..(Len(qnm_data[m]) - 1) : qnm_data[m][i].a < qnm_data[m][i + 1].a
        /\ \A i \in 1..Len(op.rows) : RowKey(RowList[op.rows[i]]) \in DOMAIN qnm_data

QueryNames == {"interpolate_entry", "get_frequency", "generate_waveform"}

(* C9: a call of interpolate_entry, get_frequency or generate_waveform,    *)
(* succeeding or failing, leaves qnm_data and spins_by_mode as they were.  *)
C9_QueriesLeaveStore ==
    [][op'.name \in QueryNames => UNCHANGED <<qnm_data, spins_by_mode>>]_vars

(* an interpolation that computed a new entry from a two-entry mode        *)
C9_Witness ==
    /\ op.name = "interpolate_entry" /\ res.kind = "return"
    /\ op.mode_key \in DOMAIN qnm_data
    /\ ExactMatches(qnm_data[op.mode_key], op.a) = {}
    /\ Len(qnm_data[op.mode_key]) = 2

(* C10: in every state, every mode of the store has a non-empty entry      *)
(* sequence sorted ascending by spin, and spins_by_mode records exactly    *)
(* the spins of that mode's entries, in order.                              *)
C10_SortedAndIndexed ==
    /\ SortedStore
    /\ \A m \in DOMAIN qnm_data :
         /\ Len(qnm_data[m]) > 0
         /\ m \in DOMAIN spins_by_mode
         /\ spins_by_mode[m] = SpinsOf(qnm_data[m])

============================================================================
